---------------------------- MODULE Spec2Model ----------------------------
(***************************************************************************)
(* Model of the coffee bot (24Marko42/bot): the HTML fetcher, the product  *)
(* extractor, the two catalog crawls (flavor index builder and flavor      *)
(* matcher), the translator, the coffee API readers, and the command       *)
(* router with its conversation state and per-user log files.              *)
(*                                                                         *)
(* Text is a sequence of one-character strings, so that lower(), strip(),  *)
(* split(), substring containment and sorted() are computed, not assumed.  *)
(* A literal fragment of an f-string is kept as one token of the text.     *)
(* Non-ASCII literals of the source are transliterated.                    *)
(***************************************************************************)
EXTENDS Integers, Sequences, FiniteSets, TLC

(***************************************************************************)
(* Text: characters, str.lower, str.strip, str.split, "in", sorted         *)
(***************************************************************************)

\* The characters that occur in notes and queries, in code point order.
CodeOrder ==
  <<" ", ",", "A", "B", "C", "D", "E", "F", "G", "H", "I", "J", "K", "L", "M",
    "N", "O", "P", "Q", "R", "S", "T", "U", "V", "W", "X", "Y", "Z",
    "a", "b", "c", "d", "e", "f", "g", "h", "i", "j", "k", "l", "m",
    "n", "o", "p", "q", "r", "s", "t", "u", "v", "w", "x", "y", "z">>

UpperCase == SubSeq(CodeOrder, 3, 28)

LowerCase == SubSeq(CodeOrder, 29, 54)

Ord(c) == CHOOSE i \in 1..Len(CodeOrder) : CodeOrder[i] = c

IsSpace(c) == c = " "

\* str.lower() on one character
LowerChar(c) ==
  IF \E i \in 1..Len(UpperCase) : UpperCase[i] = c
  THEN LowerCase[CHOOSE i \in 1..Len(UpperCase) : UpperCase[i] = c]
  ELSE c

\* str.lower()
Lower(s) == [i \in 1..Len(s) |-> LowerChar(s[i])]

RECURSIVE LStrip(_)
LStrip(s) == IF s # <<>> /\ IsSpace(Head(s)) THEN LStrip(Tail(s)) ELSE s

RECURSIVE RStrip(_)
RStrip(s) ==
  IF s # <<>> /\ IsSpace(s[Len(s)]) THEN RStrip(SubSeq(s, 1, Len(s) - 1)) ELSE s

\* str.strip()
Strip(s) == RStrip(LStrip(s))

\* The first whitespace-delimited word of a text that starts with a non-space.
RECURSIVE FirstWord(_)
FirstWord(s) ==
  IF s = <<>> \/ IsSpace(Head(s)) THEN <<>> ELSE <<Head(s)>> \o FirstWord(Tail(s))

\* str.split(): the words between runs of whitespace, none of them empty.
RECURSIVE Split(_)
Split(s) ==
  LET t == LStrip(s) IN
  IF t = <<>> THEN <<>>
  ELSE LET w == FirstWord(t) IN <<w>> \o Split(SubSeq(t, Len(w) + 1, Len(t)))

\* Python's "word in note": substring containment.
In(word, note) ==
  \E i \in 0..(Len(note) - Len(word)) : SubSeq(note, i + 1, i + Len(word)) = word

\* Python's str "<": lexicographic by code point.
RECURSIVE StrLess(_, _)
StrLess(a, b) ==
  IF b = <<>> THEN FALSE
  ELSE IF a = <<>> THEN TRUE
  ELSE IF Head(a) # Head(b) THEN Ord(Head(a)) < Ord(Head(b))
  ELSE StrLess(Tail(a), Tail(b))

\* sorted(set_of_str)
RECURSIVE Sorted(_)
Sorted(S) ==
  IF S = {} THEN <<>>
  ELSE LET m == CHOOSE x \in S : \A y \in S : x = y \/ StrLess(x, y)
       IN  <<m>> \o Sorted(S \ {m})

\* sep.join(list_of_str)
RECURSIVE Join(_, _)
Join(sep, l) ==
  IF l = <<>> THEN <<>>
  ELSE IF Len(l) = 1 THEN l[1]
  ELSE l[1] \o sep \o Join(sep, Tail(l))

\* The non-empty members of a sequence of texts, in order.
RECURSIVE NonEmpty(_)
NonEmpty(l) ==
  IF l = <<>> THEN <<>>
  ELSE (IF Head(l) = <<>> THEN <<>> ELSE <<Head(l)>>) \o NonEmpty(Tail(l))

Range(f) == {f[i] : i \in DOMAIN f}


(***************************************************************************)
(* Markup.  A page holds product containers (div.product-item).  A         *)
(* container may hold a title-link (div.tc-tile__title a) with one text    *)
(* node and an optional href, a price (span.text-nowrap), and a            *)
(* description container (div.tc-tile__description) with paragraphs; a     *)
(* paragraph may carry the marker class text-[14px] and holds a leading    *)
(* text node followed by descriptor-badge spans of one text node each.     *)
(***************************************************************************)

Para(marker, lead, badges) == [marker |-> marker, lead |-> lead, badges |-> badges]

Item(title, anchor, has_href, href, has_price, price, has_desc, paras) ==
  [title |-> title, anchor |-> anchor, has_href |-> has_href, href |-> href,
   has_price |-> has_price, price |-> price, has_desc |-> has_desc, paras |-> paras]

\* Tag.get_text(separator, strip=True): every text node stripped, the empty
\* ones dropped, the rest joined by the separator.
GetText(strings, separator) ==
  Join(separator, NonEmpty([i \in 1..Len(strings) |-> Strip(strings[i])]))

\* The text nodes under a paragraph, in document order.
ParaStrings(p) == <<p.lead>> \o p.badges

\* desc_container.find("p"): index of the first paragraph, 0 for None.
FindP(item) == IF item.has_desc /\ item.paras # <<>> THEN 1 ELSE 0

\* desc_container.find("p", class_="text-[14px]"): index of the first
\* paragraph carrying the marker class, 0 for None.
FindMarkedP(item) ==
  IF item.has_desc /\ \E i \in 1..Len(item.paras) : item.paras[i].marker
  THEN CHOOSE i \in 1..Len(item.paras) :
         /\ item.paras[i].marker
         /\ \A j \in 1..(i - 1) : ~item.paras[j].marker
  ELSE 0

\* tag.get("href", "")
GetHref(item) == IF item.has_href THEN item.href ELSE <<>>

BASE_URL ==
  <<"h", "t", "t", "p", "s", ":", "/", "/", "s", "h", "o", "p", ".", "t", "a",
    "s", "t", "y", "c", "o", "f", "f", "e", "e", ".", "r", "u">>

\* The placeholder for a missing price or an empty list of notes (an em dash).
DASH == <<"--">>

(***************************************************************************)
(* HTTP responses and fetch_html                                           *)
(***************************************************************************)

\* A response of the catalog endpoint: the request raises (timeout,
\* transport error) or completes with a status and a body of markup.
PageResponse(raises, status, items) ==
  [raises |-> raises, status |-> status, blank |-> FALSE, items |-> items]

\* A response with status 200 whose body is the empty string.
BlankResponse == [raises |-> FALSE, status |-> 200, blank |-> TRUE, items |-> <<>>]

\* None
Absent == [present |-> FALSE, blank |-> FALSE, items |-> <<>>]

\* FetchHtml, were every 2xx status taken for success.
FetchHtmlAnySuccess(resp) ==
  IF resp.raises THEN Absent
  ELSE IF resp.status \in 200..299
       THEN [present |-> TRUE, blank |-> resp.blank, items |-> resp.items]
  ELSE Absent

\* fetch_html: the body on status 200, None on any other status (the function
\* falls off its end) and on any exception.
FetchHtml(resp) ==
  IF resp.raises THEN Absent
  ELSE IF resp.status = 200
       THEN [present |-> TRUE, blank |-> resp.blank, items |-> resp.items]
  ELSE Absent

\* "not html": None, or a body that is the empty string.
NotHtml(html) == ~html.present \/ html.blank

(***************************************************************************)
(* JSON values and translate_text                                          *)
(***************************************************************************)

JNull == [t |-> "null", s |-> <<>>, l |-> <<>>]

JNum(digits) == [t |-> "num", s |-> digits, l |-> <<>>]

JStr(s) == [t |-> "str", s |-> s, l |-> <<>>]

JList(l) == [t |-> "list", s |-> <<>>, l |-> l]

JDict == [t |-> "dict", s |-> <<>>, l |-> <<>>]

\* Python's v[0]: the first element of a list, the first character of a str,
\* IndexError on an empty one, KeyError on a JSON object (its keys are
\* strings), TypeError on a number or None.
Index0(v) ==
  IF v.t = "list" /\ v.l # <<>> THEN [exc |-> FALSE, val |-> v.l[1]]
  ELSE IF v.t = "str" /\ v.s # <<>> THEN [exc |-> FALSE, val |-> JStr(<<v.s[1]>>)]
  ELSE [exc |-> TRUE, val |-> JNull]

\* A response of the translation endpoint: the call raises, or completes with
\* a status; resp.json() raises when the body is not JSON.
GtxResponse(raises, status, is_json, json) ==
  [raises |-> raises, status |-> status, is_json |-> is_json, json |-> json]

\* isinstance(arr, list) and arr and isinstance(arr[0], list)
ExpectedShape(arr) == arr.t = "list" /\ arr.l # <<>> /\ arr.l[1].t = "list"

\* translate_text(text, dest) under a given answer of the endpoint: the
\* returned Python value.
TranslateText(text, resp) ==
  IF resp.raises THEN JStr(text)
  ELSE IF resp.status # 200 THEN JStr(text)
  ELSE IF ~resp.is_json THEN JStr(text)
  ELSE IF ExpectedShape(resp.json)
       THEN LET a == Index0(resp.json)
                b == Index0(a.val)
                c == Index0(b.val)
            IN  IF a.exc \/ b.exc \/ c.exc THEN JStr(text) ELSE c.val
       ELSE JStr(text)

\* str(value), as an f-string renders it.
PyStr(v) ==
  IF v.t = "str" \/ v.t = "num" THEN v.s
  ELSE IF v.t = "null" THEN <<"N", "o", "n", "e">>
  ELSE <<"<repr>">>

(***************************************************************************)
(* The inputs: notes, containers, pages, queries                           *)
(***************************************************************************)

\* The number of catalog pages that exist; every later page answers 404.
MaxPage == 2

\* How many times parse_coffee_page is run on the same page.
MaxRuns == 2

Nutty == <<"n", "u", "t", "t", "y">>

NuttyCap == <<"N", "u", "t", "t", "y">>

Fruity == <<"f", "r", "u", "i", "t", "y">>

DarkChocolate ==
  <<"d", "a", "r", "k", " ", "c", "h", "o", "c", "o", "l", "a", "t", "e">>

RedApple == <<"r", "e", "d", " ", "a", "p", "p", "l", "e">>

AppleRed == <<"a", "p", "p", "l", "e", " ", "r", "e", "d">>

Chocolate == <<"c", "h", "o", "c", "o", "l", "a", "t", "e">>

DarkApple == <<"d", "a", "r", "k", " ", "a", "p", "p", "l", "e">>

Banana == <<"b", "a", "n", "a", "n", "a">>

Sweet == <<"S", "w", "e", "e", "t">>

\* A complete container whose only note is capitalised.
ItemNutty ==
  Item(TRUE, <<"K", "e", "n", "y", "a">>, TRUE, <<"/", "k">>, TRUE, <<"4", "5", "0">>,
       TRUE, <<Para(TRUE, <<>>, <<NuttyCap>>)>>)

\* No price.
ItemFruityNutty ==
  Item(TRUE, <<"B", "r", "a", "z", "i", "l">>, TRUE, <<"/", "b">>, FALSE, <<>>,
       TRUE, <<Para(TRUE, Sweet, <<Fruity, Nutty>>)>>)

\* A first paragraph without the marker class, then the marked one.
ItemTwoParas ==
  Item(TRUE, <<"P", "e", "r", "u">>, TRUE, <<"/", "p">>, TRUE, <<"5", "0", "0">>,
       TRUE, <<Para(FALSE, <<>>, <<Fruity>>), Para(TRUE, <<>>, <<DarkChocolate, RedApple>>)>>)

\* No title-link.
ItemNoTitle ==
  Item(FALSE, <<>>, FALSE, <<>>, TRUE, <<"3", "0", "0">>,
       TRUE, <<Para(TRUE, <<>>, <<Nutty>>)>>)

\* No description container.
ItemNoDesc ==
  Item(TRUE, <<"C", "u", "b", "a">>, TRUE, <<"/", "c">>, TRUE, <<"2", "0", "0">>,
       FALSE, <<>>)

\* A description container without a marked paragraph.
ItemNoMarker ==
  Item(TRUE, <<"L", "a", "o", "s">>, TRUE, <<"/", "l">>, FALSE, <<>>,
       TRUE, <<Para(FALSE, <<>>, <<RedApple>>)>>)

\* A title-link with neither text nor href.
ItemEmptyAnchor ==
  Item(TRUE, <<" ">>, FALSE, <<>>, TRUE, <<"1", "0", "0">>,
       TRUE, <<Para(TRUE, <<>>, <<Nutty>>)>>)

\* A marked paragraph without badges.
ItemNoBadge ==
  Item(TRUE, <<"M", "a", "l", "i">>, TRUE, <<"/", "m">>, TRUE, <<"9", "0">>,
       TRUE, <<Para(TRUE, Sweet, <<>>)>>)

ItemPool ==
  {ItemNutty, ItemFruityNutty, ItemTwoParas, ItemNoTitle, ItemNoDesc,
   ItemNoMarker, ItemEmptyAnchor, ItemNoBadge}

\* What the catalog endpoint may answer for one page.
PagePool ==
  {PageResponse(TRUE, 0, <<>>), PageResponse(FALSE, 404, <<>>),
   PageResponse(FALSE, 200, <<>>), BlankResponse}
  \cup {PageResponse(FALSE, 200, <<i>>) : i \in ItemPool}
  \cup {PageResponse(FALSE, 200, l) :
          l \in {<<ItemNutty, ItemFruityNutty>>, <<ItemFruityNutty, ItemNutty>>,
                 <<ItemNoTitle, ItemTwoParas>>, <<ItemNutty, ItemNutty>>,
                 <<ItemNoDesc, ItemNoBadge, ItemFruityNutty>>}}

Catalogs == [1..MaxPage -> PagePool]

\* The arguments of find_coffee_by_flavors.
QueryPool ==
  {<<Nutty>>, <<Fruity, Nutty>>, <<AppleRed, Chocolate>>, <<DarkApple>>,
   <<Banana>>, <<<<" ">> \o NuttyCap>>, <<<<" ">>>>}

\* The limit arguments of parse_coffee_page (5 is the default).
LimitPool == {1, 2, 5}

(***************************************************************************)
(* State                                                                   *)
(***************************************************************************)

VARIABLES
  catalog,       \* the answers of the catalog endpoint, by page number
  gtx,           \* the translation endpoint: "up" or "down"
  op,            \* the function that is running
  pc,            \* its position: "idle", "loop", "return", "done"
  url,           \* parse_coffee_page: the page its url names
  limit,         \* parse_coffee_page (parsers.py): its limit
  flavors,       \* find_coffee_by_flavors: its argument
  user_flavors,  \* find_coffee_by_flavors: the normalised query
  page,          \* the crawls: the page counter
  notes_set,     \* get_all_flavor_notes: the notes collected so far
  results,       \* find_coffee_by_flavors: the entries collected so far
  items,         \* parse_coffee_page (parser.py): the containers of the page
  idx,           \* parse_coffee_page (parser.py): the container to process next
  products,      \* parse_coffee_page (parser.py): the records built so far
  requested,     \* the page numbers requested from the catalog endpoint
  ret,           \* the value returned
  calls,         \* parse_coffee_page (parser.py): the runs completed
  first,         \* parse_coffee_page (parser.py): what the first run returned
  text,          \* translate_text: its argument
  answer,        \* translate_text: the answer of the translation endpoint
  tail,          \* the answer of the catalog endpoint for every further page
  api,           \* the answer of the coffee API
  fsm,           \* the bot: the conversation state of each user
  inbox,         \* the bot: the updates received and not yet dispatched
  tasks,         \* the bot: the handlers that are running
  logs,          \* the bot: the lines of each log file
  received,      \* the bot: the number of updates received so far
  sent,          \* the bot: the messages sent, in order
  clock          \* the bot: the time, one tick per line written or message sent

vars ==
  <<catalog, gtx, op, pc, url, limit, flavors, user_flavors, page, notes_set,
    results, items, idx, products, requested, ret, calls, first, text, answer,
    tail, api, fsm, inbox, tasks, logs, received, sent, clock>>

\* The bot's own state.
chat == <<fsm, inbox, tasks, logs, received, sent, clock>>

\* What the functions of parsers.py and parser.py leave alone.
world == <<catalog, gtx, tail, api, chat>>

\* The page counters of the crawls are followed up to this page.
PageCap == MaxPage + 2

\* The answer of the catalog endpoint for page n: the pages listed, and the
\* same answer for every page after them.
PageAt(n) ==
  IF n \in DOMAIN catalog THEN catalog[n] ELSE tail

(***************************************************************************)
(* The translator as the extractor and the crawls see it                   *)
(***************************************************************************)

\* What the translation service makes of a text when it works.
Ru(x) == <<"ru:">> \o x

\* The answer of the translation endpoint to a request for x.
GtxAnswer(x) ==
  IF gtx = "up"
  THEN GtxResponse(FALSE, 200, TRUE, JList(<<JList(<<JList(<<JStr(Ru(x))>>)>>)>>))
  ELSE GtxResponse(FALSE, 500, FALSE, JNull)

\* await translate_text(x, dest="ru"), as rendered into an f-string
Translate(x) == PyStr(TranslateText(x, GtxAnswer(x)))

(***************************************************************************)
(* parser.py: parse_coffee_page, one container                             *)
(***************************************************************************)

\* The texts of the badges of a paragraph: span.get_text(strip=True) of each.
BadgeTexts(p) == [i \in 1..Len(p.badges) |-> GetText(<<p.badges[i]>>, <<>>)]

\* The body of the loop over containers: the records the container adds
\* (none when it has no title-link).
ParserRecord(item) ==
  IF ~item.title THEN <<>>
  ELSE LET name == GetText(<<item.anchor>>, <<>>)
           rel_link == Strip(GetHref(item))
           link == BASE_URL \o rel_link
           p == FindMarkedP(item)
       IN  <<[name |-> name,
              link |-> link,
              description |-> IF p # 0 THEN GetText(ParaStrings(item.paras[p]), <<" ">>)
                              ELSE <<>>,
              flavor_notes |-> IF p # 0 THEN BadgeTexts(item.paras[p]) ELSE <<>>]>>

(***************************************************************************)
(* parsers.py: parse_coffee_page                                           *)
(***************************************************************************)

FETCH_ERROR == <<"[x] Oshibka pri zaprose k tastycoffee.ru">>

NO_PRODUCTS == <<"[i] Ne udalos' najti tovary na stranice.">>

\* The formatted entry a container adds (none when it has no title-link).
ParsersEntry(item) ==
  IF ~item.title THEN <<>>
  ELSE LET name_en == GetText(<<item.anchor>>, <<>>)
           name_ru == Translate(name_en)
           full_link == BASE_URL \o Strip(GetHref(item))
           price_text == IF item.has_price THEN GetText(<<item.price>>, <<>>) ELSE DASH
           p == FindMarkedP(item)
           description_ru ==
             IF p # 0 THEN Translate(GetText(ParaStrings(item.paras[p]), <<" ">>))
             ELSE <<>>
           notes_list == IF p # 0 THEN BadgeTexts(item.paras[p]) ELSE <<>>
           notes_text == IF notes_list # <<>> THEN Join(<<",", " ">>, notes_list) ELSE DASH
       IN  <<  <<"[coffee] <b>">> \o name_ru \o <<"</b>\n", "[money] ">> \o price_text
            \o <<"\n", "[link] <a href=\"">> \o full_link \o <<"\">Ssylka</a>\n\n">>
            \o <<"[info] <i>">> \o description_ru \o <<"</i>\n\n">>
            \o <<"Noty vkusa: ">> \o notes_text  >>

\* ParsersLoop, were the limit counted in entries rather than in containers.
RECURSIVE ParsersLoopCountsEntries(_, _, _)
ParsersLoopCountsEntries(its, i, lim) ==
  IF i > Len(its) \/ lim <= 0 THEN <<>>
  ELSE ParsersEntry(its[i])
       \o ParsersLoopCountsEntries(its, i + 1, lim - Len(ParsersEntry(its[i])))

\* for idx, item in enumerate(items): if idx >= limit: break
RECURSIVE ParsersLoop(_, _, _)
ParsersLoop(its, i, lim) ==
  IF i > Len(its) \/ i - 1 >= lim THEN <<>>
  ELSE ParsersEntry(its[i]) \o ParsersLoop(its, i + 1, lim)

\* parse_coffee_page(url, limit)
ParsersParseCoffeePage(resp, lim) ==
  LET html == FetchHtml(resp) IN
  IF NotHtml(html) THEN <<FETCH_ERROR>>
  ELSE LET res == ParsersLoop(html.items, 1, lim)
       IN  IF res = <<>> THEN <<NO_PRODUCTS>> ELSE res

(***************************************************************************)
(* parsers.py: get_all_flavor_notes and find_coffee_by_flavors, one page   *)
(***************************************************************************)

\* ItemNotes without .lower().
ItemNotesRawCase(item) ==
  LET p == FindP(item) IN
  IF p = 0 THEN {}
  ELSE {GetText(<<item.paras[p].badges[i]>>, <<>>) : i \in 1..Len(item.paras[p].badges)}

\* The notes one container adds to notes_set.
ItemNotes(item) ==
  LET p == FindP(item) IN
  IF p = 0 THEN {}
  ELSE {Lower(GetText(<<item.paras[p].badges[i]>>, <<>>)) :
          i \in 1..Len(item.paras[p].badges)}

\* The notes one page adds to notes_set.
PageNotes(its) == UNION {ItemNotes(its[i]) : i \in 1..Len(its)}

\* user_flavors = [f.strip().lower() for f in flavors if f.strip()]
RECURSIVE Normalize(_)
Normalize(fl) ==
  IF fl = <<>> THEN <<>>
  ELSE (IF Strip(Head(fl)) # <<>> THEN <<Lower(Strip(Head(fl)))>> ELSE <<>>)
       \o Normalize(Tail(fl))

\* all(word in note for word in words)
AllWordsIn(words, note) == \A i \in 1..Len(words) : In(words[i], note)

\* The loop over the notes of a product, for one query term.
RECURSIVE FoundThisFlavor(_, _)
FoundThisFlavor(words, nts) ==
  IF nts = <<>> THEN FALSE
  ELSE IF AllWordsIn(words, Head(nts)) THEN TRUE
  ELSE FoundThisFlavor(words, Tail(nts))

\* Match, were one found term enough.
MatchAnyTerm(ufs, nts) ==
  ufs = <<>> \/ \E i \in 1..Len(ufs) : FoundThisFlavor(Split(ufs[i]), nts)

\* The loop over the query terms: match stays True unless a term is not found.
RECURSIVE Match(_, _)
Match(ufs, nts) ==
  IF ufs = <<>> THEN TRUE
  ELSE IF ~FoundThisFlavor(Split(Head(ufs)), nts) THEN FALSE
  ELSE Match(Tail(ufs), nts)

NO_MATCHES == <<"Sovpadenij ne najdeno.">>

\* The formatted entry of a matching product.
FindFormat(name_ru, nts, price_text, description_ru, link) ==
     <<"[coffee] <b>">> \o name_ru \o <<"</b>\n", "Vkusy: ">> \o Join(<<",", " ">>, nts)
  \o <<"\n", "[money] Cena: ">> \o price_text \o <<"\n", "[info] <i>">> \o description_ru
  \o <<"</i>\n\n">> \o <<"[link] <a href=\"">> \o link \o <<"\">Ssylka</a>">>

\* FindEntry, did a missing price abort the record.
FindEntryNeedsPrice(item, ufs) ==
  IF ~item.title \/ ~item.has_price THEN <<>>
  ELSE LET p == FindMarkedP(item) IN
       IF p = 0 THEN <<>>
       ELSE LET nts == [i \in 1..Len(item.paras[p].badges) |->
                          Lower(GetText(<<item.paras[p].badges[i]>>, <<>>))]
            IN  IF Match(ufs, nts)
                THEN <<FindFormat(Translate(GetText(<<item.anchor>>, <<" ">>)), nts,
                                  GetText(<<item.price>>, <<>>),
                                  Translate(GetText(ParaStrings(item.paras[p]), <<" ">>)),
                                  BASE_URL \o GetHref(item))>>
                ELSE <<>>

\* The body of the loop over containers: the entries the container adds.
FindEntry(item, ufs) ==
  IF ~item.title THEN <<>>
  ELSE LET name_en == GetText(<<item.anchor>>, <<" ">>)
           name_ru == Translate(name_en)
           link == BASE_URL \o GetHref(item)
           price_text == IF item.has_price THEN GetText(<<item.price>>, <<>>) ELSE DASH
           p == FindMarkedP(item)
       IN  IF ~item.has_desc THEN <<>>
           ELSE IF p = 0 THEN <<>>
           ELSE LET description_en == GetText(ParaStrings(item.paras[p]), <<" ">>)
                    description_ru == Translate(description_en)
                    nts == [i \in 1..Len(item.paras[p].badges) |->
                              Lower(GetText(<<item.paras[p].badges[i]>>, <<>>))]
                IN  IF Match(ufs, nts)
                    THEN <<FindFormat(name_ru, nts, price_text, description_ru, link)>>
                    ELSE <<>>

\* PageEntries, were the entries of a page collected last container first.
RECURSIVE PageEntriesReversed(_, _)
PageEntriesReversed(its, ufs) ==
  IF its = <<>> THEN <<>>
  ELSE PageEntriesReversed(Tail(its), ufs) \o FindEntry(Head(its), ufs)

\* The entries one page adds to results.
RECURSIVE PageEntries(_, _)
PageEntries(its, ufs) ==
  IF its = <<>> THEN <<>>
  ELSE FindEntry(Head(its), ufs) \o PageEntries(Tail(its), ufs)

(***************************************************************************)
(* The coffee API (API_COFFEE_LIST_URL) and its two readers                *)
(***************************************************************************)

\* A member of the JSON array the API answers with: an object with optional
\* "title" and "description", or a value that is not an object.
ApiObject(has_title, title, has_description, description) ==
  [t |-> "dict", has_title |-> has_title, title |-> title,
   has_description |-> has_description, description |-> description]

ApiScalar(t) ==
  [t |-> t, has_title |-> FALSE, title |-> <<>>,
   has_description |-> FALSE, description |-> <<>>]

\* The JSON document: l holds the members of a list, or the characters of a
\* string as one-character strings.
ApiData(t, l) == [t |-> t, l |-> l]

\* A response of the API: the request raises, or the body is not JSON
\* (resp.json() raises), or it is the JSON document data.
ApiResponse(raises, is_json, data) ==
  [raises |-> raises, is_json |-> is_json, data |-> data]

\* The API is unreachable.
NoApi == ApiResponse(TRUE, FALSE, ApiData("null", <<>>))

\* What a function returns or raises.
Returned(value) == [raised |-> FALSE, value |-> value]

Raised == [raised |-> TRUE, value |-> <<>>]

API_ERROR_E == <<"Oshibka: {e}">>

API_ERROR == <<"Oshibka API">>

POPULAR == <<"Populyarnye sorta:">>

\* data[:10]
FirstTen(l) == SubSeq(l, 1, IF Len(l) < 10 THEN Len(l) ELSE 10)

\* get_coffee_list: the request and resp.json() are inside the try; the slice
\* data[:10] and item.get are not.  data[:10] raises on an object, a number
\* and null; item.get raises on a member that is not an object, and on the
\* characters of a string.
GetCoffeeList(resp) ==
  IF resp.raises \/ ~resp.is_json THEN Returned(API_ERROR_E)
  ELSE IF resp.data.t \notin {"list", "str"} THEN Raised
  ELSE LET head == FirstTen(resp.data.l) IN
       IF resp.data.t = "str" /\ head # <<>> THEN Raised
       ELSE IF \E i \in 1..Len(head) : head[i].t # "dict" THEN Raised
       ELSE Returned(Join(<<"\n">>,
              <<POPULAR>> \o
              [i \in 1..Len(head) |->
                 <<"* ">> \o Translate(IF head[i].has_title THEN head[i].title
                                       ELSE DASH)]))

\* get_coffee_random with random.choice picking member k: the request and
\* resp.json() are inside the try; random.choice and item.get are not.
\* random.choice raises on an empty sequence and on an object, a number and
\* null; item.get raises on a member that is not an object.
GetCoffeeRandom(resp, k) ==
  IF resp.raises \/ ~resp.is_json THEN Returned(API_ERROR)
  ELSE IF resp.data.t \notin {"list", "str"} THEN Raised
  ELSE IF k \notin 1..Len(resp.data.l) THEN Raised
  ELSE IF resp.data.t = "str" THEN Raised
  ELSE LET item == resp.data.l[k] IN
       IF item.t # "dict" THEN Raised
       ELSE Returned(<<"[dice] <b>">>
                     \o Translate(IF item.has_title THEN item.title ELSE DASH)
                     \o <<"</b>\n\n">>
                     \o Translate(IF item.has_description THEN item.description
                                  ELSE DASH))

\* The members random.choice may pick: any, or none when there is none.
Choices(resp) ==
  IF Len(resp.data.l) = 0 THEN {0} ELSE 1..Len(resp.data.l)

(***************************************************************************)
(* Users, messages and log files (log_utils.py, coffee_bot.py)             *)
(***************************************************************************)

\* message.from_user: Telegram gives every user an id and a first name; the
\* username is optional.
User(id, first_name, has_username, username) ==
  [id |-> id, first_name |-> first_name, has_username |-> has_username,
   username |-> username]

Ivan == <<"I", "v", "a", "n">>

\* Two users who share their first name and have no username, and a third.
Users ==
  {User(1, Ivan, FALSE, <<>>), User(2, Ivan, FALSE, <<>>),
   User(3, <<"A", "n", "n", "a">>, TRUE, <<"a", "n", "n", "a">>)}

UserIds == {u.id : u \in Users}

\* str(None)
NONE == <<"N", "o", "n", "e">>

\* f"{user.username}"
UsernameStr(user) == IF user.has_username THEN user.username ELSE NONE

\* LOG_DIR / f"{user.first_name}_{user.username}.log"
LogFile(user) == user.first_name \o <<"_">> \o UsernameStr(user) \o <<".log">>

LogFiles == {LogFile(u) : u \in Users}

\* The conversation states: no state, and the one state of each group.
NoState == "None"

WaitingForSuggestion == "Suggestion:waiting_for_suggestion"

WaitingForFlavors == "FlavorSearch:waiting_for_flavors"

\* The bot right after construction: no update received, no handler running,
\* every log file empty.
Parked ==
  /\ fsm = [i \in UserIds |-> NoState]
  /\ inbox = <<>>
  /\ tasks = {}
  /\ logs = [f \in LogFiles |-> <<>>]
  /\ received = 0
  /\ sent = <<>>
  /\ clock = 0

\* The catalog has no page beyond those listed.
NotFound == PageResponse(FALSE, 404, <<>>)

(***************************************************************************)
(* Initial states                                                          *)
(***************************************************************************)

NoAnswer == GtxResponse(FALSE, 0, FALSE, JNull)

\* Nothing is running and nothing has been requested.
Quiet ==
  /\ op = "none"
  /\ pc = "idle"
  /\ url = 0
  /\ limit = 0
  /\ flavors = <<>>
  /\ user_flavors = <<>>
  /\ page = 0
  /\ notes_set = {}
  /\ results = <<>>
  /\ items = <<>>
  /\ idx = 0
  /\ products = <<>>
  /\ requested = <<>>
  /\ ret = <<>>
  /\ calls = 0
  /\ first = <<>>

Init ==
  /\ catalog \in Catalogs
  /\ gtx \in {"up", "down"}
  /\ tail = NotFound
  /\ api = NoApi
  /\ Parked
  /\ Quiet
  /\ text = <<>>
  /\ answer = NoAnswer

(***************************************************************************)
(* parsers.py: get_all_flavor_notes                                        *)
(***************************************************************************)

CallGetAllFlavorNotes ==
  /\ pc = "idle"
  /\ op' = "get_all_flavor_notes"
  /\ page' = 1
  /\ notes_set' = {}
  /\ pc' = "loop"
  /\ UNCHANGED <<world, url, limit, flavors, user_flavors, results, items, idx,
                 products, requested, ret, calls, first, text, answer>>

\* NotesIteration, were a failed fetch skipped instead of ending the crawl.
NotesIterationSkipsFailure ==
  /\ op = "get_all_flavor_notes"
  /\ pc = "loop"
  /\ page <= PageCap
  /\ requested' = Append(requested, page)
  /\ LET html == FetchHtml(PageAt(page)) IN
     IF NotHtml(html) /\ page < Len(catalog)
     THEN /\ page' = page + 1
          /\ pc' = "loop"
          /\ UNCHANGED notes_set
     ELSE IF NotHtml(html) \/ html.items = <<>>
     THEN /\ pc' = "return"
          /\ UNCHANGED <<page, notes_set>>
     ELSE /\ notes_set' = notes_set \cup PageNotes(html.items)
          /\ page' = page + 1
          /\ pc' = "loop"
  /\ UNCHANGED <<world, op, url, limit, flavors, user_flavors, results, items, idx,
                 products, ret, calls, first, text, answer>>

\* NotesIteration, were the page counter advanced by two.
NotesIterationSkipsPage ==
  /\ op = "get_all_flavor_notes"
  /\ pc = "loop"
  /\ page <= PageCap
  /\ requested' = Append(requested, page)
  /\ LET html == FetchHtml(PageAt(page)) IN
     IF NotHtml(html) \/ html.items = <<>>
     THEN /\ pc' = "return"
          /\ UNCHANGED <<page, notes_set>>
     ELSE /\ notes_set' = notes_set \cup PageNotes(html.items)
          /\ page' = page + 2
          /\ pc' = "loop"
  /\ UNCHANGED <<world, op, url, limit, flavors, user_flavors, results, items, idx,
                 products, ret, calls, first, text, answer>>

\* One pass of "while True": fetch the page, break on no html or no
\* containers, else collect the notes and go to the next page.
NotesIteration ==
  /\ op = "get_all_flavor_notes"
  /\ pc = "loop"
  /\ page <= PageCap
  /\ requested' = Append(requested, page)
  /\ LET html == FetchHtml(PageAt(page)) IN
     IF NotHtml(html) \/ html.items = <<>>
     THEN /\ pc' = "return"
          /\ UNCHANGED <<page, notes_set>>
     ELSE /\ notes_set' = notes_set \cup PageNotes(html.items)
          /\ page' = page + 1
          /\ pc' = "loop"
  /\ UNCHANGED <<world, op, url, limit, flavors, user_flavors, results, items, idx,
                 products, ret, calls, first, text, answer>>

\* return sorted(notes_set)
NotesReturn ==
  /\ op = "get_all_flavor_notes"
  /\ pc = "return"
  /\ ret' = Sorted(notes_set)
  /\ pc' = "done"
  /\ UNCHANGED <<world, op, url, limit, flavors, user_flavors, page, notes_set,
                 results, items, idx, products, requested, calls, first, text, answer>>

(***************************************************************************)
(* parsers.py: find_coffee_by_flavors                                      *)
(***************************************************************************)

CallFindCoffeeByFlavors(fl) ==
  /\ pc = "idle"
  /\ op' = "find_coffee_by_flavors"
  /\ flavors' = fl
  /\ page' = 1
  /\ results' = <<>>
  /\ user_flavors' = Normalize(fl)
  /\ pc' = "loop"
  /\ UNCHANGED <<world, url, limit, notes_set, items, idx, products, requested,
                 ret, calls, first, text, answer>>

\* FindIteration, without the break on a page with no containers.
FindIterationPastEmptyPage ==
  /\ op = "find_coffee_by_flavors"
  /\ pc = "loop"
  /\ page <= PageCap
  /\ requested' = Append(requested, page)
  /\ LET html == FetchHtml(PageAt(page)) IN
     IF NotHtml(html)
     THEN /\ pc' = "return"
          /\ UNCHANGED <<page, results>>
     ELSE /\ results' = results \o PageEntries(html.items, user_flavors)
          /\ page' = page + 1
          /\ pc' = "loop"
  /\ UNCHANGED <<world, op, url, limit, flavors, user_flavors, notes_set, items, idx,
                 products, ret, calls, first, text, answer>>

\* One pass of "while True".
FindIteration ==
  /\ op = "find_coffee_by_flavors"
  /\ pc = "loop"
  /\ page <= PageCap
  /\ requested' = Append(requested, page)
  /\ LET html == FetchHtml(PageAt(page)) IN
     IF NotHtml(html) \/ html.items = <<>>
     THEN /\ pc' = "return"
          /\ UNCHANGED <<page, results>>
     ELSE /\ results' = results \o PageEntries(html.items, user_flavors)
          /\ page' = page + 1
          /\ pc' = "loop"
  /\ UNCHANGED <<world, op, url, limit, flavors, user_flavors, notes_set, items, idx,
                 products, ret, calls, first, text, answer>>

\* FindReturn, without the sentinel.
FindReturnBare ==
  /\ op = "find_coffee_by_flavors"
  /\ pc = "return"
  /\ ret' = results
  /\ pc' = "done"
  /\ UNCHANGED <<world, op, url, limit, flavors, user_flavors, page, notes_set,
                 results, items, idx, products, requested, calls, first, text, answer>>

\* return results or [NO_MATCHES]
FindReturn ==
  /\ op = "find_coffee_by_flavors"
  /\ pc = "return"
  /\ ret' = IF results # <<>> THEN results ELSE <<NO_MATCHES>>
  /\ pc' = "done"
  /\ UNCHANGED <<world, op, url, limit, flavors, user_flavors, page, notes_set,
                 results, items, idx, products, requested, calls, first, text, answer>>

(***************************************************************************)
(* parser.py: parse_coffee_page, run up to MaxRuns times on one page       *)
(***************************************************************************)

\* The request of parse_coffee_page: [] on an exception or a status other
\* than 200, else the body.
ParserFetch(resp) ==
  IF resp.raises THEN Absent
  ELSE IF resp.status # 200 THEN Absent
  ELSE [present |-> TRUE, blank |-> resp.blank, items |-> resp.items]

\* ParserStart, had products outlived the call (a module-level list).
ParserStartKeepsProducts(html) ==
  /\ products' = products
  /\ items' = html.items
  /\ idx' = 1

\* The state of the locals when the loop over containers starts.
ParserStart(html) ==
  /\ products' = <<>>
  /\ items' = html.items
  /\ idx' = 1

\* What a completed run leaves behind.
ParserDone(value) ==
  /\ ret' = value
  /\ pc' = "done"
  /\ calls' = calls + 1
  /\ first' = IF calls = 0 THEN value ELSE first

ParserCall(n) ==
  /\ \/ pc = "idle"
     \/ pc = "done" /\ op = "parser.parse_coffee_page" /\ calls < MaxRuns /\ n = url
  /\ op' = "parser.parse_coffee_page"
  /\ url' = n
  /\ requested' = Append(requested, n)
  /\ LET html == ParserFetch(PageAt(n)) IN
     IF ~html.present
     THEN /\ ParserDone(<<>>)
          /\ UNCHANGED <<products, items, idx>>
     ELSE /\ ParserStart(html)
          /\ pc' = "loop"
          /\ UNCHANGED <<ret, calls, first>>
  /\ UNCHANGED <<world, limit, flavors, user_flavors, page, notes_set, results,
                 text, answer>>

\* One pass of the loop over the containers.
ParserItem ==
  /\ op = "parser.parse_coffee_page"
  /\ pc = "loop"
  /\ idx <= Len(items)
  /\ products' = products \o ParserRecord(items[idx])
  /\ idx' = idx + 1
  /\ UNCHANGED <<world, op, pc, url, limit, flavors, user_flavors, page, notes_set,
                 results, items, requested, ret, calls, first, text, answer>>

\* return products
ParserReturn ==
  /\ op = "parser.parse_coffee_page"
  /\ pc = "loop"
  /\ idx > Len(items)
  /\ ParserDone(products)
  /\ UNCHANGED <<world, op, url, limit, flavors, user_flavors, page, notes_set,
                 results, items, idx, products, requested, text, answer>>

(***************************************************************************)
(* parsers.py: parse_coffee_page                                           *)
(***************************************************************************)

ParsersCall(n, lim) ==
  /\ pc = "idle"
  /\ op' = "parsers.parse_coffee_page"
  /\ url' = n
  /\ limit' = lim
  /\ requested' = Append(requested, n)
  /\ ret' = ParsersParseCoffeePage(PageAt(n), lim)
  /\ pc' = "done"
  /\ UNCHANGED <<world, flavors, user_flavors, page, notes_set, results, items, idx,
                 products, calls, first, text, answer>>

(***************************************************************************)
(* The specification of the extractor and the crawls                       *)
(***************************************************************************)

Next ==
  \/ CallGetAllFlavorNotes
  \/ NotesIteration
  \/ NotesReturn
  \/ \E fl \in QueryPool : CallFindCoffeeByFlavors(fl)
  \/ FindIteration
  \/ FindReturn
  \/ \E n \in 1..MaxPage : ParserCall(n)
  \/ ParserItem
  \/ ParserReturn
  \/ \E n \in 1..MaxPage : \E lim \in LimitPool : ParsersCall(n, lim)

Spec == Init /\ [][Next]_vars

(***************************************************************************)
(* What the claims speak of, stated over the catalog                       *)
(***************************************************************************)

\* Page n ends a crawl: its fetch is absent or it has no product container.
PageGone(n) ==
  PageAt(n).raises \/ PageAt(n).status # 200 \/ PageAt(n).items = <<>>

\* The terminating page: the first page that ends a crawl.
LastPage ==
  CHOOSE k \in 1..(Len(catalog) + 1) : PageGone(k) /\ \A j \in 1..(k - 1) : ~PageGone(j)

\* The containers of pages 1..k, by page number and then by position.
RECURSIVE ItemsUpTo(_)
ItemsUpTo(k) == IF k = 0 THEN <<>> ELSE ItemsUpTo(k - 1) \o PageAt(k).items

\* The containers of the pages before the terminating page.
CrawledItems == ItemsUpTo(LastPage - 1)

HasTitle(it) == it.title

HasMarkedP(it) == it.has_desc /\ \E i \in DOMAIN it.paras : it.paras[i].marker

\* The first paragraph of a container that carries the marker class.
MarkedP(it) ==
  it.paras[CHOOSE i \in DOMAIN it.paras :
             it.paras[i].marker /\ \A j \in 1..(i - 1) : ~it.paras[j].marker]

\* A product's lowercased flavor notes: the badges of its marker paragraph.
ProductNotes(it) ==
  IF HasMarkedP(it)
  THEN [i \in DOMAIN MarkedP(it).badges |-> Lower(Strip(MarkedP(it).badges[i]))]
  ELSE <<>>

\* A query of normalized terms: each non-empty, trimmed and lowercase.
IsNormalized(q) ==
  \A i \in DOMAIN q : q[i] # <<>> /\ Strip(q[i]) = q[i] /\ Lower(q[i]) = q[i]

\* The note contains every whitespace-separated word of the term.
TermInNote(term, note) == \A w \in Range(Split(term)) : In(w, note)

\* Every term of the query is satisfied by some note of the product.
Satisfies(it, q) ==
  \A i \in DOMAIN q : \E j \in DOMAIN ProductNotes(it) : TermInNote(q[i], ProductNotes(it)[j])

\* The formatted entry of a product in the result of find_coffee_by_flavors.
EntryOf(it) ==
  FindFormat(
    Translate(Strip(it.anchor)),
    ProductNotes(it),
    IF it.has_price THEN Strip(it.price) ELSE DASH,
    IF HasMarkedP(it)
    THEN Translate(Join(<<" ">>, NonEmpty(<<Strip(MarkedP(it).lead)>>
           \o [i \in DOMAIN MarkedP(it).badges |-> Strip(MarkedP(it).badges[i])])))
    ELSE <<>>,
    BASE_URL \o (IF it.has_href THEN it.href ELSE <<>>))

IsProductEntry(e) == e # NO_MATCHES

FindDone == op = "find_coffee_by_flavors" /\ pc = "done"

NotesDone == op = "get_all_flavor_notes" /\ pc = "done"

(***************************************************************************)
(* C1                                                                      *)
(***************************************************************************)

\* C1: when find_coffee_by_flavors has returned for a non-empty query of
\* normalized terms, a product with a title-link on a crawled page has its
\* entry in the result if and only if every term is satisfied by at least one
\* of the product's lowercased notes, i.e. some note contains every
\* whitespace-separated word of the term as a substring.
C1_IncludedIffEveryTermInSomeNote ==
  (FindDone /\ flavors # <<>> /\ IsNormalized(flavors)) =>
    \A i \in DOMAIN CrawledItems :
      HasTitle(CrawledItems[i]) =>
        ((\E j \in DOMAIN ret : ret[j] = EntryOf(CrawledItems[i]))
           <=> Satisfies(CrawledItems[i], flavors))

\* A two-term query with a multi-word term in reversed word order, satisfied
\* by two different notes of one product, while another product with a
\* title-link on the crawled pages is left out.
C1_Witness ==
  /\ FindDone
  /\ flavors = <<AppleRed, Chocolate>>
  /\ \E j \in DOMAIN ret : ret[j] = EntryOf(ItemTwoParas)
  /\ \E i \in DOMAIN CrawledItems :
       /\ HasTitle(CrawledItems[i])
       /\ \A j \in DOMAIN ret : ret[j] # EntryOf(CrawledItems[i])

(***************************************************************************)
(* C2                                                                      *)
(***************************************************************************)

\* The products that match a query, in catalog order.
Matching(q) ==
  LET Wanted(it) == HasTitle(it) /\ Satisfies(it, q) IN SelectSeq(CrawledItems, Wanted)

ExpectedEntries(q) == [i \in DOMAIN Matching(q) |-> EntryOf(Matching(q)[i])]

\* Page 1 holds one product with notes {nutty}, page 2 one with {fruity, nutty}.
IsExampleCatalog ==
  /\ PageAt(1) = PageResponse(FALSE, 200, <<ItemNutty>>)
  /\ PageAt(2) = PageResponse(FALSE, 200, <<ItemFruityNutty>>)
  /\ LastPage = 3

\* C2: when find_coffee_by_flavors has returned for a non-empty query of
\* normalized terms, the product entries of its result are exactly the entries
\* of the matching products of the pages before the terminating page, one
\* each, ordered by page number and then by position in the page; on the
\* two-page example, [nutty] returns both products and [fruity, nutty] only
\* the second.
C2_AggregatesAcrossPagesInOrder ==
  (FindDone /\ flavors # <<>> /\ IsNormalized(flavors)) =>
    /\ SelectSeq(ret, IsProductEntry) = ExpectedEntries(flavors)
    /\ (IsExampleCatalog /\ flavors = <<Nutty>>) =>
         ret = <<EntryOf(ItemNutty), EntryOf(ItemFruityNutty)>>
    /\ (IsExampleCatalog /\ flavors = <<Fruity, Nutty>>) =>
         ret = <<EntryOf(ItemFruityNutty)>>

\* The example with the one-term query: both products, page 1 first.
C2_Witness ==
  /\ FindDone
  /\ IsExampleCatalog
  /\ flavors = <<Nutty>>
  /\ Len(ret) = 2

(***************************************************************************)
(* C3                                                                      *)
(***************************************************************************)

InCrawl == op \in {"get_all_flavor_notes", "find_coffee_by_flavors"}

\* C3: in both crawls the pages are requested in the order 1, 2, 3, ..., each
\* once, and no page is requested after a page whose fetch was absent or which
\* had zero product containers.
C3_PagesInOrderNoneAfterEnd ==
  InCrawl =>
    /\ \A i \in DOMAIN requested : requested[i] = i
    /\ \A i \in DOMAIN requested : \A k \in 1..(i - 1) : ~PageGone(k)

\* A crawl that has ended at a page with zero containers although the next
\* page would have had some.
C3_Witness ==
  /\ FindDone
  /\ ~PageAt(1).raises /\ PageAt(1).status = 200 /\ PageAt(1).items = <<>>
  /\ PageAt(2).items # <<>>
  /\ requested = <<1>>

(***************************************************************************)
(* C4                                                                      *)
(***************************************************************************)

\* The badge texts the index builder reads in one container: those of the
\* first paragraph of its description container, lowercased.
IndexedNotes(it) ==
  IF it.has_desc /\ it.paras # <<>>
  THEN {Lower(Strip(b)) : b \in Range(it.paras[1].badges)}
  ELSE {}

\* The notes of the pages 1..k.
NotesUpTo(k) == UNION {IndexedNotes(it) : it \in Range(ItemsUpTo(k))}

\* C4: get_all_flavor_notes returns exactly the notes of the pages 1..k-1,
\* where k is the first page whose fetch is absent or which has zero product
\* containers; it has requested the pages 1..k and no other, so that later
\* pages contribute nothing.
C4_FailureTruncatesLikeEndOfCatalog ==
  NotesDone =>
    /\ Range(ret) = NotesUpTo(LastPage - 1)
    /\ Len(requested) = LastPage

\* A fetch failure at page 2 after a page 1 with notes: the notes of page 1
\* are returned as if the catalog had ended.
C4_Witness ==
  /\ NotesDone
  /\ PageAt(2).raises
  /\ ~PageGone(1)
  /\ ret = <<Fruity, Nutty>>

(***************************************************************************)
(* C5                                                                      *)
(***************************************************************************)

\* C5: the value get_all_flavor_notes returns is in strictly ascending
\* lexicographic order (hence without duplicates), each element is lowercase,
\* and its elements are the lowercased badge texts the crawl has read on the
\* crawled pages (in the first paragraph of each description container).
C5_SortedDistinctLowercase ==
  NotesDone =>
    /\ \A i \in 1..(Len(ret) - 1) : StrLess(ret[i], ret[i + 1])
    /\ \A i, j \in DOMAIN ret : ret[i] = ret[j] => i = j
    /\ \A i \in DOMAIN ret : Lower(ret[i]) = ret[i]
    /\ Range(ret) = NotesUpTo(LastPage - 1)

\* The same note in two spellings (Nutty, nutty) and a second note, returned
\* as two sorted lowercase elements.
C5_Witness ==
  /\ NotesDone
  /\ PageAt(1).items = <<ItemFruityNutty, ItemNutty>>
  /\ ret = <<Fruity, Nutty>>

(***************************************************************************)
(* C6                                                                      *)
(***************************************************************************)

\* The terms of a query that are left after trimming and lowercasing.
NormalTerms(q) ==
  SelectSeq([i \in DOMAIN q |-> Lower(Strip(q[i]))], LAMBDA t : t # <<>>)

\* A product satisfies a query as the caller passed it: it has a title-link
\* and a marker paragraph, and every term that is left after normalization is
\* satisfied by one of its notes.
SatisfiesRaw(it, q) == HasTitle(it) /\ HasMarkedP(it) /\ Satisfies(it, NormalTerms(q))

\* C6: find_coffee_by_flavors never returns an empty list; it returns the
\* single sentinel entry exactly when no product of the crawled pages
\* satisfies the query, and otherwise only product entries.
C6_SentinelIffNoMatch ==
  FindDone =>
    /\ ret # <<>>
    /\ ret = <<NO_MATCHES>> <=> ~\E i \in DOMAIN CrawledItems : SatisfiesRaw(CrawledItems[i], flavors)
    /\ ret # <<NO_MATCHES>> => \A j \in DOMAIN ret : IsProductEntry(ret[j])

\* Page 1 is unreachable: the sentinel, as for a query nothing matches.
C6_Witness ==
  /\ FindDone
  /\ PageAt(1).raises
  /\ ret = <<NO_MATCHES>>

(***************************************************************************)
(* translate_text against every answer of the translation endpoint         *)
(***************************************************************************)

\* The nesting depth of the JSON bodies the endpoint answers with.
MaxDepth == 3

Hello == <<"h", "e", "l", "l", "o">>

TextPool == {Hello, <<"h", "i">>, <<>>}

Scalars == {JNull, JNum(<<"4", "2">>), JStr(<<>>), JStr(<<"p", "r", "i", "v", "e", "t">>), JDict}

\* The JSON values nested at most d deep.
RECURSIVE JsonUpTo(_)
JsonUpTo(d) ==
  IF d = 0 THEN Scalars
  ELSE Scalars \cup {JList(<<>>)} \cup {JList(<<x>>) : x \in JsonUpTo(d - 1)}

AnswerPool ==
  {GtxResponse(TRUE, 0, FALSE, JNull),
   GtxResponse(FALSE, 500, FALSE, JNull),
   GtxResponse(FALSE, 404, TRUE, JList(<<JList(<<JList(<<JStr(<<"n", "o">>)>>)>>)>>)),
   GtxResponse(FALSE, 200, FALSE, JNull)}
  \cup {GtxResponse(FALSE, 200, TRUE, j) : j \in JsonUpTo(MaxDepth)}

InitTranslate ==
  /\ catalog = [n \in 1..MaxPage |-> PageResponse(FALSE, 404, <<>>)]
  /\ gtx = "down"
  /\ tail = NotFound
  /\ api = NoApi
  /\ Parked
  /\ Quiet
  /\ text \in TextPool
  /\ answer \in AnswerPool

\* ret = await translate_text(text, dest)
TranslateCall ==
  /\ pc = "idle"
  /\ op' = "translate_text"
  /\ ret' = TranslateText(text, answer)
  /\ pc' = "done"
  /\ UNCHANGED <<world, url, limit, flavors, user_flavors, page, notes_set, results,
                 items, idx, products, requested, calls, first, text, answer>>

NextTranslate == TranslateCall

SpecTranslate == InitTranslate /\ [][NextTranslate]_vars

(***************************************************************************)
(* C7                                                                      *)
(***************************************************************************)

\* The expected nested-array shape: the first element of the first element of
\* the first segment is a string.
ExpectedJson(j) ==
  /\ j.t = "list" /\ j.l # <<>>
  /\ j.l[1].t = "list" /\ j.l[1].l # <<>>
  /\ j.l[1].l[1].t = "list" /\ j.l[1].l[1].l # <<>>
  /\ j.l[1].l[1].l[1].t = "str"

TranslateDone == op = "translate_text" /\ pc = "done"

\* C7: translate_text returns exactly its input text whenever the endpoint
\* answers with a status other than 200, with a body that is not JSON of the
\* expected nested-array shape, or the call raises.
C7_FailOpenOnEveryMalformedAnswer ==
  (TranslateDone /\ (\/ answer.raises
                     \/ answer.status # 200
                     \/ ~answer.is_json
                     \/ ~ExpectedJson(answer.json)))
    => ret = JStr(text)

(***************************************************************************)
(* C8                                                                      *)
(***************************************************************************)

ParserDonePresent ==
  op = "parser.parse_coffee_page" /\ pc = "done" /\ ParserFetch(PageAt(url)).present

ParsersDonePresent ==
  op = "parsers.parse_coffee_page" /\ pc = "done" /\ ~NotHtml(FetchHtml(PageAt(url)))

\* The first n members of a sequence.
FirstN(l, n) == SubSeq(l, 1, IF n < Len(l) THEN n ELSE Len(l))

\* An entry of parsers.parse_coffee_page or find_coffee_by_flavors whose name
\* is empty, and one whose link is the bare base URL.
EntryNameEmpty(e) == In(<<"[coffee] <b>", "</b>\n">>, e)

EntryLinkBare(e) == In(<<"[link] <a href=\"">> \o BASE_URL \o <<"\">Ssylka</a>">>, e)
                    \/ In(<<"[link] <a href=\"">> \o BASE_URL \o <<"\">Ssylka</a>\n\n">>, e)

\* C8: a record is emitted only for a container in which both a name and a
\* link were found: the extractor emits one record per container with a
\* title-link and none for the others, and no emitted record has an empty name
\* or a link built without a link target (with the translator down, so that
\* the name is shown as extracted).
C8_RecordsHaveNameAndLink ==
  /\ ParserDonePresent =>
       /\ Len(ret) = Len(SelectSeq(PageAt(url).items, HasTitle))
       /\ \A j \in DOMAIN ret : ret[j].name # <<>> /\ ret[j].link # BASE_URL
  /\ (ParsersDonePresent /\ ret # <<NO_PRODUCTS>>) =>
       /\ Len(ret) = Len(SelectSeq(FirstN(PageAt(url).items, limit), HasTitle))
       /\ \A j \in DOMAIN ret :
            (gtx = "down" => ~EntryNameEmpty(ret[j])) /\ ~EntryLinkBare(ret[j])
  /\ (FindDone /\ ret # <<NO_MATCHES>>) =>
       \A j \in DOMAIN ret :
         (gtx = "down" => ~EntryNameEmpty(ret[j])) /\ ~EntryLinkBare(ret[j])

(***************************************************************************)
(* C9                                                                      *)
(***************************************************************************)

\* The degraded fields as they show in an entry of parsers.parse_coffee_page.
PriceDegraded(e) == In(<<"[money] ">> \o DASH \o <<"\n">>, e)

DescDegraded(e) == In(<<"[info] <i>", "</i>\n\n">>, e)

NotesDegraded(e) == In(<<"Noty vkusa: ">> \o DASH, e)

\* The degraded fields as they show in an entry of find_coffee_by_flavors.
FindPriceDegraded(e) == In(<<"[money] Cena: ">> \o DASH \o <<"\n">>, e)

FindNotesDegraded(e) == In(<<"Vkusy: ", "\n">>, e)

NoBadges(it) == HasMarkedP(it) /\ MarkedP(it).badges = <<>>

Extractable(it) == HasTitle(it) /\ HasMarkedP(it)

\* parse_coffee_page of parser.py and of parsers.py: every container with a
\* title-link yields a record, its missing fields degraded.
C9_ParsePart ==
  /\ ParserDonePresent =>
       LET T == SelectSeq(PageAt(url).items, HasTitle) IN
       /\ Len(ret) = Len(T)
       /\ \A j \in DOMAIN T :
            /\ ~HasMarkedP(T[j]) => ret[j].description = <<>> /\ ret[j].flavor_notes = <<>>
            /\ NoBadges(T[j]) => ret[j].flavor_notes = <<>>
  /\ ParsersDonePresent =>
       LET T == SelectSeq(FirstN(PageAt(url).items, limit), HasTitle) IN
       T # <<>> =>
         /\ Len(ret) = Len(T)
         /\ \A j \in DOMAIN T :
              /\ ~T[j].has_price => PriceDegraded(ret[j])
              /\ ~HasMarkedP(T[j]) => DescDegraded(ret[j]) /\ NotesDegraded(ret[j])
              /\ NoBadges(T[j]) => NotesDegraded(ret[j])

C10_RerunReturnsSameRecords ==
  (op = "parser.parse_coffee_page" /\ pc = "done" /\ calls >= 2) => ret = first

\* Two completed runs over a page that yields more than one record.
C10_Witness ==
  /\ op = "parser.parse_coffee_page"
  /\ pc = "done"
  /\ calls = 2
  /\ Len(ret) >= 2

(***************************************************************************)
(* fetch_html against every answer of the catalog endpoint                 *)
(***************************************************************************)

\* What the endpoint may answer: a timeout or transport error before any
\* status, an error while the body of a 200 is read, and every status with
\* and without markup in the body.
FetchPool ==
  {PageResponse(TRUE, 0, <<>>), PageResponse(TRUE, 200, <<ItemNutty>>), BlankResponse}
  \cup {PageResponse(FALSE, st, body) :
          st \in {200, 201, 204, 301, 404, 500},
          body \in {<<>>, <<ItemNutty>>, <<ItemNoTitle, ItemTwoParas>>}}

InitFetch ==
  /\ catalog \in [1..MaxPage -> FetchPool]
  /\ gtx = "down"
  /\ tail = NotFound
  /\ api = NoApi
  /\ Parked
  /\ Quiet
  /\ text = <<>>
  /\ answer = NoAnswer

\* ret = await fetch_html(session, TASTY_URL_TEMPLATE.format(n))
FetchCall(n) ==
  /\ pc = "idle"
  /\ op' = "fetch_html"
  /\ url' = n
  /\ requested' = Append(requested, n)
  /\ ret' = FetchHtml(PageAt(n))
  /\ pc' = "done"
  /\ UNCHANGED <<world, limit, flavors, user_flavors, page, notes_set, results,
                 items, idx, products, calls, first, text, answer>>

NextFetch == \E n \in 1..MaxPage : FetchCall(n)

SpecFetch == InitFetch /\ [][NextFetch]_vars

(***************************************************************************)
(* C11                                                                     *)
(***************************************************************************)

FetchDone == op = "fetch_html" /\ pc = "done"

\* C11: fetch_html hands its caller a value and never an exception: the body
\* of the response exactly when the request completes without error with
\* status 200, and None for every other status, timeout or transport error.
C11_BodyIffCompleted200 ==
  FetchDone =>
    LET r == PageAt(url) IN
    IF ~r.raises /\ r.status = 200
    THEN ret = [present |-> TRUE, blank |-> r.blank, items |-> r.items]
    ELSE ret = Absent

\* A response with markup and a success status other than 200 was fetched
\* and came back as None.
C11_Witness ==
  /\ FetchDone
  /\ ~PageAt(url).raises
  /\ PageAt(url).status = 201
  /\ PageAt(url).items # <<>>
  /\ ret = Absent

(***************************************************************************)
(* The bot (coffee_bot.py; handlers.py registers the same handlers in the  *)
(* same order)                                                             *)
(***************************************************************************)

\* The operator's chat.
ADMIN_ID == 0

START == <<"/", "s", "t", "a", "r", "t">>

BTN_LATEST == <<"[box] Poslednie sorta">>

BTN_RANDOM == <<"[dice] Sluchajnyj kofe">>

BTN_LIST == <<"[list] Spisok napitkov">>

BTN_FLAVORS == <<"[flask] Podbor po vkusam">>

BTN_TIPS == <<"[coffee] Sovety">>

BTN_SUGGESTION == <<"[i] Predlozhka">>

\* The labels of the six buttons, row by row.
MAIN_KEYBOARD ==
  <<BTN_LATEST, BTN_RANDOM, BTN_LIST, BTN_FLAVORS, BTN_TIPS, BTN_SUGGESTION>>

\* The text the filter of coffee_list compares with.
LIST_FILTER == <<"[list] Spisok sortov">>

BREWING_TIPS ==
  << <<"1. Ispolzujte svezhemolotyj kofe.">>,
     <<"2. Temperatura vody -- 92-96 C.">>,
     <<"3. Ne zalivajte kipyatkom -- gorech!">>,
     <<"4. Proporciya: 60 g kofe na litr vody.">>,
     <<"5. Eksperimentirujte s pomolom.">> >>

GREETING ==
  <<"Privet! Ya bot pro kofe [coffee]\nVybirajte dejstvie cherez knopki nizhe.">>

ASK_SUGGESTION ==
  <<"[mail] Napishite, pozhalujsta, vashe predlozhenie ili zamechanie.">>

THANKS == <<"[ok] Spasibo! Vashe predlozhenie otpravleno.">>

NO_UNIVERSE == <<"Ne udalos poluchit spisok vkusov :(">>

AVAILABLE == <<"Dostupnye vkusy:\n">>

HINT ==
  <<"\n\n[i] Esli vy ispolzuete Podbor po vkusam, starajtes vvodit notki v roditelnom padezhe ...">>

ENTER_FLAVORS == <<"Vvedite nuzhnye vkusy cherez zapyatuyu:">>

REPEAT_INPUT == <<"Ne raspoznany vkusy. Povtorite vvod:">>

\* An incoming message; a message that carries no text has text None.
Msg(message_id, from_user, has_text, txt) ==
  [message_id |-> message_id, from_user |-> from_user, has_text |-> has_text,
   text |-> txt]

\* f"{message.text}"
TextStr(m) == IF m.has_text THEN m.text ELSE NONE

\* The line log_message writes.
UserLine(at, m) ==
  [at |-> at, bot |-> FALSE, first_name |-> m.from_user.first_name,
   username |-> UsernameStr(m.from_user), id |-> m.from_user.id,
   text |-> TextStr(m)]

\* The line _log writes.
BotLine(at, entry) ==
  [at |-> at, bot |-> TRUE, first_name |-> <<>>, username |-> <<>>, id |-> 0,
   text |-> entry]

\* forwarded_text of process_suggestion
ForwardedText(m) ==
  <<"[mail] Novaya predlozhka ot @">>
  \o (IF m.from_user.has_username /\ m.from_user.username # <<>>
      THEN m.from_user.username ELSE m.from_user.first_name)
  \o <<" (ID: ", ToString(m.from_user.id), "):\n\n">> \o TextStr(m)

\* str.split(sep): the pieces between the separators, empty ones included.
RECURSIVE SplitOn(_, _)
SplitOn(sep, s) ==
  IF \E i \in 1..Len(s) : s[i] = sep
  THEN LET i == CHOOSE j \in 1..Len(s) : s[j] = sep /\ \A k \in 1..(j - 1) : s[k] # sep
       IN  <<SubSeq(s, 1, i - 1)>> \o SplitOn(sep, SubSeq(s, i + 1, Len(s)))
  ELSE <<s>>

\* ParseFlavors, were the pieces taken as they are typed.
ParseFlavorsAsTyped(txt) == SplitOn(",", txt)

\* flavors = [f.strip().lower() for f in message.text.split(",") if f.strip()]
ParseFlavors(txt) == Normalize(SplitOn(",", txt))

\* get_all_flavor_notes from page p on, as one value.
RECURSIVE NotesFrom(_, _)
NotesFrom(p, acc) ==
  LET html == FetchHtml(PageAt(p)) IN
  IF NotHtml(html) \/ html.items = <<>> THEN Sorted(acc)
  ELSE NotesFrom(p + 1, acc \cup PageNotes(html.items))

GetAllFlavorNotes == NotesFrom(1, {})

\* find_coffee_by_flavors from page p on, as one value.
RECURSIVE EntriesFrom(_, _, _)
EntriesFrom(p, ufs, acc) ==
  LET html == FetchHtml(PageAt(p)) IN
  IF NotHtml(html) \/ html.items = <<>> THEN acc
  ELSE EntriesFrom(p + 1, ufs, acc \o PageEntries(html.items, ufs))

FindCoffeeByFlavors(fl) ==
  LET res == EntriesFrom(1, Normalize(fl), <<>>) IN
  IF res # <<>> THEN res ELSE <<NO_MATCHES>>

\* The handlers, in the order they are registered with the dispatcher.
HANDLERS ==
  <<"cmd_start", "ask_suggestion", "process_suggestion", "latest_coffee",
    "random_coffee", "coffee_list", "brewing_tips", "select_flavors",
    "process_flavors">>

\* The filter each handler is registered with, on a message from a user whose
\* conversation state is st.  Command("start") takes the first word of the
\* text; the lambdas compare the whole text; a state filter compares the
\* state and takes any message.  Only the two state filters look at st.
Filter(h, m, st) ==
  CASE h = "cmd_start" ->
         m.has_text /\ Split(m.text) # <<>> /\ Split(m.text)[1] = START
    [] h = "ask_suggestion" -> m.has_text /\ m.text = BTN_SUGGESTION
    [] h = "process_suggestion" -> st = WaitingForSuggestion
    [] h = "latest_coffee" -> m.has_text /\ m.text = BTN_LATEST
    [] h = "random_coffee" -> m.has_text /\ m.text = BTN_RANDOM
    [] h = "coffee_list" -> m.has_text /\ m.text = LIST_FILTER
    [] h = "brewing_tips" -> m.has_text /\ m.text = BTN_TIPS
    [] h = "select_flavors" -> m.has_text /\ m.text = BTN_FLAVORS
    [] h = "process_flavors" -> st = WaitingForFlavors

\* The dispatcher hands a message to the first registered handler whose
\* filter passes, and drops it when none does.
Route(m, st) ==
  IF \E i \in 1..Len(HANDLERS) : Filter(HANDLERS[i], m, st)
  THEN HANDLERS[CHOOSE i \in 1..Len(HANDLERS) :
                  /\ Filter(HANDLERS[i], m, st)
                  /\ \A j \in 1..(i - 1) : ~Filter(HANDLERS[j], m, st)]
  ELSE "unhandled"

\* What a handler still has to do when it is suspended: a sequence of sends,
\* each followed by what the handler does before it is suspended again.
\* admin: bot.send_message(ADMIN_ID, ...) rather than message.answer(...);
\* log: the send is made by send_and_log, which then writes the bot line;
\* state: "keep", or the state set after the send (NoState for state.clear()).
Instr(admin, txt, log, state) ==
  [admin |-> admin, text |-> txt, log |-> log, state |-> state]

KEEP == "keep"

\* message.answer(txt), and the state set after it
Answer(txt, state) == Instr(FALSE, txt, FALSE, state)

\* send_and_log(message, content) for a list; a str is a list of one.
SendAndLog(content) ==
  [i \in 1..Len(content) |-> Instr(FALSE, content[i], TRUE, KEEP)]

\* The state set right after the last send of prog.
ThenState(prog, state) ==
  [i \in 1..Len(prog) |-> IF i = Len(prog) THEN [prog[i] EXCEPT !.state = state]
                          ELSE prog[i]]

\* A running handler: its message, the state its user was in when the message
\* was dispatched, and what is left to do.
Task(m, h, st, prog) == [msg |-> m, handler |-> h, st |-> st, prog |-> prog]

\* The variables of the functions of parsers.py and parser.py.
locals ==
  <<op, pc, url, limit, flavors, user_flavors, page, notes_set, results, items,
    idx, products, requested, ret, calls, first, text, answer>>

Pending == inbox # <<>>

\* The update the dispatcher takes next.
Update == Head(inbox)

Matched(h) == Pending /\ Route(Update, fsm[Update.from_user.id]) = h

\* The dispatcher takes the update and starts handler h on it: log_message
\* runs at once, then the handler is suspended at its first await (a request
\* to the shop or the API, or its first send) with prog left to do.  A handler
\* that raises before it sends anything leaves nothing to do.
Start(h, prog) ==
  /\ Matched(h)
  /\ inbox' = Tail(inbox)
  /\ logs' = [logs EXCEPT ![LogFile(Update.from_user)] =
                Append(@, UserLine(clock + 1, Update))]
  /\ clock' = clock + 1
  /\ tasks' = IF prog = <<>> THEN tasks
              ELSE tasks \cup {Task(Update, h, fsm[Update.from_user.id], prog)}
  /\ UNCHANGED <<catalog, gtx, tail, api, fsm, received, sent>>

\* A handler that calls neither crawl.
Begin(h, prog) == Start(h, prog) /\ UNCHANGED locals

\* The page at which a crawl that has reached page p leaves its loop.
RECURSIVE StopsAt(_)
StopsAt(p) ==
  LET html == FetchHtml(PageAt(p)) IN
  IF NotHtml(html) \/ html.items = <<>> THEN p ELSE StopsAt(p + 1)

\* await get_all_flavor_notes(): the crawl runs to its end while the handler
\* is suspended, and touches nothing of the bot.
AwaitGetAllFlavorNotes ==
  /\ op' = "get_all_flavor_notes"
  /\ page' = StopsAt(1)
  /\ requested' = requested \o [i \in 1..StopsAt(1) |-> i]
  /\ notes_set' = Range(GetAllFlavorNotes)
  /\ ret' = GetAllFlavorNotes
  /\ pc' = "done"
  /\ UNCHANGED <<url, limit, flavors, user_flavors, results, items, idx, products,
                 calls, first, text, answer>>

\* await find_coffee_by_flavors(fl)
AwaitFindCoffeeByFlavors(fl) ==
  /\ op' = "find_coffee_by_flavors"
  /\ flavors' = fl
  /\ user_flavors' = Normalize(fl)
  /\ page' = StopsAt(1)
  /\ requested' = requested \o [i \in 1..StopsAt(1) |-> i]
  /\ results' = EntriesFrom(1, Normalize(fl), <<>>)
  /\ ret' = FindCoffeeByFlavors(fl)
  /\ pc' = "done"
  /\ UNCHANGED <<url, limit, notes_set, items, idx, products, calls, first, text,
                 answer>>

CmdStart == Begin("cmd_start", <<Answer(GREETING, KEEP)>>)

AskSuggestion ==
  Begin("ask_suggestion", <<Answer(ASK_SUGGESTION, WaitingForSuggestion)>>)

ProcessSuggestion ==
  /\ Pending
  /\ Begin("process_suggestion",
           <<Instr(TRUE, ForwardedText(Update), FALSE, KEEP),
             Answer(THANKS, NoState)>>)

\* parse_coffee_page() with its defaults: page 2 of the catalog, limit 5.
LatestCoffee ==
  Begin("latest_coffee", SendAndLog(ParsersParseCoffeePage(PageAt(2), 5)))

RandomCoffee ==
  \E k \in Choices(api) :
    LET r == GetCoffeeRandom(api, k) IN
    Begin("random_coffee", IF r.raised THEN <<>> ELSE SendAndLog(<<r.value>>))

CoffeeList ==
  LET r == GetCoffeeList(api) IN
  Begin("coffee_list", IF r.raised THEN <<>> ELSE SendAndLog(<<r.value>>))

BrewingTips ==
  Begin("brewing_tips", SendAndLog(<<Join(<<"\n">>, BREWING_TIPS)>>))

SelectFlavors ==
  LET notes == GetAllFlavorNotes IN
  /\ Start("select_flavors",
           IF notes = <<>> THEN <<Answer(NO_UNIVERSE, KEEP)>>
           ELSE <<Answer(AVAILABLE \o Join(<<",", " ">>, notes) \o HINT, KEEP),
                  Answer(ENTER_FLAVORS, WaitingForFlavors)>>)
  /\ AwaitGetAllFlavorNotes

\* ProcessFlavors, were the state cleared on an empty parse too.
ProcessFlavorsAlwaysClears ==
  /\ Pending
  /\ IF ~Update.has_text THEN Begin("process_flavors", <<>>)
     ELSE LET fl == ParseFlavors(Update.text) IN
          IF fl = <<>>
          THEN Begin("process_flavors", <<Answer(REPEAT_INPUT, NoState)>>)
          ELSE /\ Start("process_flavors",
                        ThenState(SendAndLog(FindCoffeeByFlavors(fl)), NoState))
               /\ AwaitFindCoffeeByFlavors(fl)

\* message.text.split raises on a message without text; an empty parse
\* re-prompts and returns before state.clear().
ProcessFlavors ==
  /\ Pending
  /\ IF ~Update.has_text THEN Begin("process_flavors", <<>>)
     ELSE LET fl == ParseFlavors(Update.text) IN
          IF fl = <<>>
          THEN Begin("process_flavors", <<Answer(REPEAT_INPUT, KEEP)>>)
          ELSE /\ Start("process_flavors",
                        ThenState(SendAndLog(FindCoffeeByFlavors(fl)), NoState))
               /\ AwaitFindCoffeeByFlavors(fl)

\* No filter passes: the update is dropped.
Unhandled ==
  /\ Matched("unhandled")
  /\ inbox' = Tail(inbox)
  /\ UNCHANGED <<catalog, gtx, tail, api, fsm, tasks, logs, received, sent, clock,
                 locals>>

\* Resume, were the bot line written before the send.
ResumeLogsFirst(t) ==
  /\ t \in tasks
  /\ LET i == Head(t.prog)
         rest == Tail(t.prog)
         user == t.msg.from_user
     IN  /\ sent' = Append(sent,
                      [chat |-> IF i.admin THEN ADMIN_ID ELSE user.id,
                       text |-> i.text, html |-> i.log, reply_to |-> t.msg,
                       at |-> IF i.log THEN clock + 2 ELSE clock + 1])
         /\ logs' = IF i.log
                    THEN [logs EXCEPT ![LogFile(user)] =
                            Append(@, BotLine(clock + 1, i.text))]
                    ELSE logs
         /\ clock' = IF i.log THEN clock + 2 ELSE clock + 1
         /\ fsm' = IF i.state = KEEP THEN fsm
                   ELSE [fsm EXCEPT ![user.id] = i.state]
         /\ tasks' = (tasks \ {t})
                     \cup (IF rest = <<>> THEN {} ELSE {[t EXCEPT !.prog = rest]})
  /\ UNCHANGED <<catalog, gtx, tail, api, inbox, received, locals>>

\* A suspended handler goes on: its send completes, send_and_log writes the
\* bot line, the state is set if the handler sets it here, and the handler is
\* suspended at its next send or returns.
Resume(t) ==
  /\ t \in tasks
  /\ LET i == Head(t.prog)
         rest == Tail(t.prog)
         user == t.msg.from_user
     IN  /\ sent' = Append(sent,
                      [chat |-> IF i.admin THEN ADMIN_ID ELSE user.id,
                       text |-> i.text, html |-> i.log, reply_to |-> t.msg,
                       at |-> clock + 1])
         /\ logs' = IF i.log
                    THEN [logs EXCEPT ![LogFile(user)] =
                            Append(@, BotLine(clock + 2, i.text))]
                    ELSE logs
         /\ clock' = IF i.log THEN clock + 2 ELSE clock + 1
         /\ fsm' = IF i.state = KEEP THEN fsm
                   ELSE [fsm EXCEPT ![user.id] = i.state]
         /\ tasks' = (tasks \ {t})
                     \cup (IF rest = <<>> THEN {} ELSE {[t EXCEPT !.prog = rest]})
  /\ UNCHANGED <<catalog, gtx, tail, api, inbox, received, locals>>

\* The number of messages the users send.
MaxMsgs == 2

Page(its) == PageResponse(FALSE, 200, its)

\* The shop as the bot finds it: closed, or with one product on each of its
\* first two pages.
BotCatalogs ==
  {[n \in 1..MaxPage |-> NotFound],
   [n \in 1..MaxPage |-> IF n = 1 THEN Page(<<ItemFruityNutty>>)
                         ELSE IF n = 2 THEN Page(<<ItemNutty>>)
                         ELSE NotFound]}

Latte == ApiObject(TRUE, <<"L", "a", "t", "t", "e">>, TRUE, <<"M", "i", "l", "k">>)

\* The API as the bot finds it: with one drink, or with none.
BotApis ==
  {ApiResponse(FALSE, TRUE, ApiData("list", <<Latte>>)),
   ApiResponse(FALSE, TRUE, ApiData("list", <<>>))}

\* A query of one term, with an empty piece after the comma.
NuttyQuery == NuttyCap \o <<",", " ">>

\* What each user sends: the two who share their names anything, the third
\* a query.
Outbox(user) ==
  IF user.id \in {1, 2}
  THEN {Msg(0, user, TRUE, txt) :
          txt \in {START, LIST_FILTER, NuttyQuery, <<" ", ",", " ">>}
                  \cup Range(MAIN_KEYBOARD)}
       \cup {Msg(0, user, FALSE, <<>>)}
  ELSE {Msg(0, user, TRUE, NuttyQuery)}

\* A user sends a message; the bot receives it as its next update.
UserSends(m) ==
  /\ received < MaxMsgs
  /\ received' = received + 1
  /\ inbox' = Append(inbox, [m EXCEPT !.message_id = received + 1])
  /\ UNCHANGED <<catalog, gtx, tail, api, fsm, tasks, logs, sent, clock, locals>>

InitBot ==
  /\ catalog \in BotCatalogs
  /\ gtx = "down"
  /\ tail = NotFound
  /\ api \in BotApis
  /\ Parked
  /\ Quiet
  /\ text = <<>>
  /\ answer = NoAnswer

\* start_polling(bot): every update is handled in a task of its own, so the
\* dispatcher takes the next update while earlier handlers are suspended.
NextBot ==
  \/ \E u \in Users : \E m \in Outbox(u) : UserSends(m)
  \/ CmdStart
  \/ AskSuggestion
  \/ ProcessSuggestion
  \/ LatestCoffee
  \/ RandomCoffee
  \/ CoffeeList
  \/ BrewingTips
  \/ SelectFlavors
  \/ ProcessFlavors
  \/ Unhandled
  \/ \E t \in tasks : Resume(t)

SpecBot == InitBot /\ [][NextBot]_vars

(***************************************************************************)
(* What the claims speak of, stated over the bot                           *)
(***************************************************************************)

\* In this step the handler running as t returns.
Returns(t) == t \in tasks /\ \A x \in tasks' : x.msg # t.msg

\* In this step the dispatcher takes the update and starts no handler that
\* outlives the step: none matches, or the handler raises at once.
Dropped == Pending /\ inbox' = Tail(inbox) /\ tasks' = tasks

\* The messages sent so far in reply to message m.
Replies(m) == {i \in 1..Len(sent) : sent[i].reply_to = m}

\* Nothing is received and not handled to the end.
Settled == inbox = <<>> /\ tasks = {}

(***************************************************************************)
(* C12                                                                     *)
(***************************************************************************)

\* C12 as stated: whenever process_flavors returns, its user's state is
\* Idle, also when the message yielded no terms.
C12_Original ==
  [][\A t \in tasks :
       (t.handler = "process_flavors" /\ Returns(t))
         => fsm'[t.msg.from_user.id] = NoState]_vars

\* C12, amended: when process_flavors returns from a message that yields at
\* least one term, its user's state is Idle; when the message yields no term
\* the handler re-prompts and leaves the state as it is, and when the message
\* has no text the handler raises and leaves the state as it is.
C12_IdleOnlyAfterTerms ==
  [][/\ \A t \in tasks :
          (t.handler = "process_flavors" /\ Returns(t))
            => IF ParseFlavors(t.msg.text) # <<>>
               THEN fsm'[t.msg.from_user.id] = NoState
               ELSE /\ fsm' = fsm
                    /\ sent' = Append(sent, [chat |-> t.msg.from_user.id,
                                             text |-> REPEAT_INPUT, html |-> FALSE,
                                             reply_to |-> t.msg, at |-> clock + 1])
     /\ (Dropped /\ Matched("process_flavors")) => (fsm' = fsm /\ sent' = sent)
    ]_vars

\* A user in AwaitingFlavorQuery sent a message of blanks and commas, was
\* asked to repeat the input, and is still in AwaitingFlavorQuery.
C12_Witness ==
  /\ Settled
  /\ \E i \in 1..Len(sent) :
       /\ sent[i].text = REPEAT_INPUT
       /\ sent[i].reply_to.text = <<" ", ",", " ">>
       /\ fsm[sent[i].chat] = WaitingForFlavors

(***************************************************************************)
(* C13                                                                     *)
(***************************************************************************)

\* The messages sent to the operator in reply to message m, after this step.
ForwardsAfter(m) ==
  {i \in 1..Len(sent') : sent'[i].reply_to = m /\ sent'[i].chat = ADMIN_ID}

\* C13: when the handling of a message dispatched in AwaitingSuggestion
\* ends, exactly one message holding that message's text has gone to
\* ADMIN_ID, the user has been acknowledged and the user's state is Idle; and
\* a message goes to ADMIN_ID only for a message dispatched in
\* AwaitingSuggestion.
C13_NextMessageIsForwarded ==
  [][/\ \A t \in tasks :
          (t.st = WaitingForSuggestion /\ Returns(t))
            => /\ Cardinality(ForwardsAfter(t.msg)) = 1
               /\ \A i \in ForwardsAfter(t.msg) : In(TextStr(t.msg), sent'[i].text)
               /\ \E i \in 1..Len(sent') :
                    /\ sent'[i].reply_to = t.msg
                    /\ sent'[i].chat = t.msg.from_user.id
                    /\ sent'[i].text = THANKS
               /\ fsm'[t.msg.from_user.id] = NoState
     /\ (Len(sent') > Len(sent) /\ sent'[Len(sent')].chat = ADMIN_ID)
           => \E t \in tasks :
                t.msg = sent'[Len(sent')].reply_to /\ t.st = WaitingForSuggestion
    ]_vars

(***************************************************************************)
(* C14                                                                     *)
(***************************************************************************)

\* C14: a message dispatched while its user is in AwaitingFlavorQuery is
\* handled by process_flavors and one dispatched in AwaitingSuggestion by
\* process_suggestion, whatever its text.
C14_DialogConsumesEveryMessage ==
  \A t \in tasks :
    /\ t.st = WaitingForFlavors => t.handler = "process_flavors"
    /\ t.st = WaitingForSuggestion => t.handler = "process_suggestion"

(***************************************************************************)
(* C15                                                                     *)
(***************************************************************************)

\* The handler each button of MAIN_KEYBOARD stands for, button by button.
MENU_HANDLERS ==
  <<"latest_coffee", "random_coffee", "coffee_list", "select_flavors",
    "brewing_tips", "ask_suggestion">>

\* C15: the label of each of the six buttons, received as the text of a
\* message from a user in Idle, is dispatched to the handler of that button.
C15_EveryButtonTriggersItsHandler ==
  (Pending /\ Update.has_text /\ fsm[Update.from_user.id] = NoState)
    => \A i \in 1..Len(MAIN_KEYBOARD) :
         Update.text = MAIN_KEYBOARD[i] => Route(Update, NoState) = MENU_HANDLERS[i]

(***************************************************************************)
(* C16                                                                     *)
(***************************************************************************)

\* C16: no two handlers run for one user at a time: a user's message is
\* dispatched only after the handler of that user's earlier message returned.
C16_OneHandlerPerUserAtATime ==
  \A t1, t2 \in tasks : t1.msg.from_user.id = t2.msg.from_user.id => t1 = t2

(***************************************************************************)
(* C17                                                                     *)
(***************************************************************************)

\* C17: no log file holds lines of two users.
C17_OneUserPerLogFile ==
  \A f \in LogFiles : \A i, j \in 1..Len(logs[f]) :
    (~logs[f][i].bot /\ ~logs[f][j].bot) => logs[f][i].id = logs[f][j].id

(***************************************************************************)
(* C20                                                                     *)
(***************************************************************************)

IsPrefix(a, b) == Len(a) <= Len(b) /\ SubSeq(b, 1, Len(a)) = a

\* The line of message m is in the log file of its sender, written before at.
LoggedBefore(m, at) ==
  \E j \in 1..Len(logs[LogFile(m.from_user)]) :
    LET line == logs[LogFile(m.from_user)][j] IN
    /\ ~line.bot
    /\ line.id = m.from_user.id
    /\ line.text = TextStr(m)
    /\ line.at < at

\* The line of the inbound message is written when its handler starts, before
\* any reply to it is sent.
InboundFirst ==
  /\ \A t \in tasks : LoggedBefore(t.msg, clock + 1)
  /\ \A i \in 1..Len(sent) : LoggedBefore(sent[i].reply_to, sent[i].at)

\* The bot lines in the file of the user of send i that were written for it:
\* right after it, with its text.
BotLinesOf(i) ==
  LET f == logs[LogFile(sent[i].reply_to.from_user)] IN
  {j \in 1..Len(f) : f[j].bot /\ f[j].text = sent[i].text /\ f[j].at = sent[i].at + 1}

\* send_and_log writes one bot line for each text it sends, after the send;
\* no bot line is written without such a send; the lines of a file are in the
\* order they were written, so the bot lines are in the order of their sends.
BotLinesFollowSends ==
  /\ \A i \in 1..Len(sent) : sent[i].html => Cardinality(BotLinesOf(i)) = 1
  /\ \A f \in LogFiles : \A j \in 1..Len(logs[f]) :
       logs[f][j].bot =>
         \E i \in 1..Len(sent) :
           /\ sent[i].html
           /\ LogFile(sent[i].reply_to.from_user) = f
           /\ j \in BotLinesOf(i)
  /\ \A f \in LogFiles : \A j, k \in 1..Len(logs[f]) :
       j < k => logs[f][j].at < logs[f][k].at

\* C20: every log file only grows by appending (what it held before a step
\* is a prefix of what it holds after); every handler writes the line of the
\* inbound message before it sends any reply to it; and send_and_log writes
\* one bot line per text it sends, in the order of the sends, each after its
\* send.
C20_LogsAppendInOrder ==
  /\ [](InboundFirst /\ BotLinesFollowSends)
  /\ [][\A f \in LogFiles : IsPrefix(logs[f], logs'[f])]_vars

\* A query was answered with two products: the log of the user holds the
\* line of the query and then the two bot lines, and all is handled.
C20_Witness ==
  /\ Settled
  /\ \E f \in LogFiles : \E j \in 1..(Len(logs[f]) - 2) :
       /\ ~logs[f][j].bot /\ logs[f][j].text = NuttyQuery
       /\ logs[f][j + 1].bot /\ logs[f][j + 2].bot
       /\ logs[f][j + 1].text # logs[f][j + 2].text

(***************************************************************************)
(* get_coffee_list and get_coffee_random against every answer of the API   *)
(***************************************************************************)

\* The members of the JSON array: objects with and without a title, a
\* string, null.
ApiMembers ==
  {Latte, ApiObject(FALSE, <<>>, FALSE, <<>>), ApiScalar("str"), ApiScalar("null")}

\* What the API may answer: a transport failure, a body that is not JSON,
\* lists of up to two members (the empty list among them), and JSON that is
\* no list: an object, null, a number, the empty string, a string.
ApiPool ==
  {NoApi, ApiResponse(FALSE, FALSE, ApiData("null", <<>>))}
  \cup {ApiResponse(FALSE, TRUE, ApiData("list", l)) :
          l \in {<<>>} \cup {<<a>> : a \in ApiMembers}
                \cup {<<a, b>> : a \in ApiMembers, b \in ApiMembers}}
  \cup {ApiResponse(FALSE, TRUE, ApiData(t, <<>>)) : t \in {"dict", "null", "num", "str"}}
  \cup {ApiResponse(FALSE, TRUE, ApiData("str", <<ApiScalar("str")>>))}

InitApi ==
  /\ catalog = [n \in 1..MaxPage |-> NotFound]
  /\ gtx \in {"up", "down"}
  /\ tail = NotFound
  /\ api \in ApiPool
  /\ Parked
  /\ Quiet
  /\ text = <<>>
  /\ answer = NoAnswer

\* ret = await get_coffee_list()
GetCoffeeListCall ==
  /\ pc = "idle"
  /\ op' = "get_coffee_list"
  /\ ret' = GetCoffeeList(api)
  /\ pc' = "done"
  /\ UNCHANGED <<world, url, limit, flavors, user_flavors, page, notes_set, results,
                 items, idx, products, requested, calls, first, text, answer>>

\* ret = await get_coffee_random()
GetCoffeeRandomCall ==
  /\ pc = "idle"
  /\ op' = "get_coffee_random"
  /\ \E k \in Choices(api) : ret' = GetCoffeeRandom(api, k)
  /\ pc' = "done"
  /\ UNCHANGED <<world, url, limit, flavors, user_flavors, page, notes_set, results,
                 items, idx, products, requested, calls, first, text, answer>>

NextApi == GetCoffeeListCall \/ GetCoffeeRandomCall

SpecApi == InitApi /\ [][NextApi]_vars

(***************************************************************************)
(* C18                                                                     *)
(***************************************************************************)

\* C18: get_coffee_list and get_coffee_random return a text and never raise,
\* whatever the API answers: a transport failure, a body that is not JSON,
\* JSON that is not a list of objects, or an empty list.
C18_ApiReadersNeverRaise ==
  (op \in {"get_coffee_list", "get_coffee_random"} /\ pc = "done") => ~ret.raised

(***************************************************************************)
(* The crawls over catalogs that end and catalogs that never end           *)
(***************************************************************************)

\* What the catalog endpoint answers for a listed page, and for every page
\* after the listed ones: a catalog whose further pages all hold a product
\* never ends.
CrawlPages ==
  {PageResponse(TRUE, 0, <<>>), NotFound, Page(<<>>), BlankResponse,
   Page(<<ItemNutty>>), Page(<<ItemFruityNutty>>)}

CrawlTails == {NotFound, Page(<<ItemNutty>>)}

CrawlQueries == {<<Nutty>>, <<Banana>>}

InitCrawl ==
  /\ catalog \in [1..MaxPage -> CrawlPages]
  /\ tail \in CrawlTails
  /\ gtx = "down"
  /\ api = NoApi
  /\ Parked
  /\ Quiet
  /\ text = <<>>
  /\ answer = NoAnswer

NextCrawl ==
  \/ CallGetAllFlavorNotes
  \/ NotesIteration
  \/ NotesReturn
  \/ \E fl \in CrawlQueries : CallFindCoffeeByFlavors(fl)
  \/ FindIteration
  \/ FindReturn

\* A pass of the loop of a crawl, by its control state alone: the steps of
\* NotesIteration and FindIteration, and enabled exactly when one of them is.
CrawlPass ==
  /\ InCrawl
  /\ pc = "loop"
  /\ page <= PageCap
  /\ pc' \in {"loop", "return"}
  /\ page' \in {page, page + 1}

\* The return of a crawl, by its control state alone: the steps of
\* NotesReturn and FindReturn.
CrawlLeave == InCrawl /\ pc = "return" /\ pc' = "done"

\* A crawl that was called is awaited by its caller, and each of its requests
\* completes or times out (timeout=10), so its next pass and its return do
\* happen.
SpecCrawl ==
  /\ InitCrawl
  /\ [][NextCrawl]_vars
  /\ WF_<<pc, page>>(CrawlPass)
  /\ WF_pc(CrawlLeave)

(***************************************************************************)
(* C19                                                                     *)
(***************************************************************************)

\* Every page of the catalog holds a product container.
Endless == \A k \in 1..(Len(catalog) + 1) : ~PageGone(k)

CrawlLeftLoop == InCrawl /\ pc \in {"return", "done"}

\* C19: a crawl returns if some page's fetch is absent or has no product
\* container, and only then: it leaves the loop at the first such page and
\* nowhere else, so over a catalog whose every page holds a container it
\* never returns; and every pass of the loop that does not leave it requests
\* the current page and advances the page counter by exactly one.
C19_ReturnsIffSomePageEnds ==
  /\ (InCrawl /\ ~Endless) ~> (InCrawl /\ pc = "done")
  /\ [](CrawlLeftLoop => (PageGone(page) /\ \A j \in 1..(page - 1) : ~PageGone(j)))
  /\ [](Endless => ~CrawlLeftLoop)
  /\ [][(InCrawl /\ pc = "loop")
          => /\ requested' = Append(requested, page)
             /\ \/ pc' = "loop" /\ page' = page + 1
                \/ pc' = "return" /\ page' = page]_vars

\* A crawl went through every listed page and returned at the page after.
C19_Witness ==
  /\ InCrawl /\ pc = "done"
  /\ page = Len(catalog) + 1
  /\ requested = [i \in 1..page |-> i]

(***************************************************************************)
(* C21                                                                     *)
(***************************************************************************)

\* The texts sent in reply to message m once this step is taken, in order.
RepliedTexts(m) ==
  LET at == SelectSeq([i \in 1..Len(sent') |-> i], LAMBDA i : sent'[i].reply_to = m)
  IN  [k \in 1..Len(at) |-> sent'[at[k]].text]

\* In this step select_flavors, running as t, returns with an empty universe.
ReturnsWithoutUniverse(t) ==
  t \in tasks /\ t.handler = "select_flavors" /\ Returns(t) /\ GetAllFlavorNotes = <<>>

\* The frame of select_flavors: with an empty universe it replies with the
\* failure message only and sets no state, and a user's state becomes
\* AwaitingFlavorQuery only in the returning step of select_flavors for that
\* user with a universe that is not empty.
SelectFlavorsFrame ==
  /\ \A t \in tasks :
       ReturnsWithoutUniverse(t)
         => (RepliedTexts(t.msg) = <<NO_UNIVERSE>> /\ fsm' = fsm)
  /\ \A u \in UserIds :
       (fsm'[u] = WaitingForFlavors /\ fsm[u] # WaitingForFlavors)
         => /\ GetAllFlavorNotes # <<>>
            /\ \E t \in tasks : /\ t.handler = "select_flavors"
                                /\ t.msg.from_user.id = u
                                /\ Returns(t)

\* C21: when select_flavors is handled and the flavor universe comes back
\* empty, the handler replies with the failure message only, sends no query
\* prompt and leaves the user's state unchanged, which is Idle; the state
\* becomes AwaitingFlavorQuery only when the universe is not empty.
C21_EmptyUniverseLeavesIdle ==
  [][/\ SelectFlavorsFrame
     /\ \A t \in tasks :
          ReturnsWithoutUniverse(t) => fsm'[t.msg.from_user.id] = NoState
    ]_vars

(***************************************************************************)
(* C22                                                                     *)
(***************************************************************************)

\* The matcher, asked for the one note n over the pages of the catalog,
\* returns product entries and not the sentinel.
FindsAProduct(r) == r # <<>> /\ \A i \in DOMAIN r : IsProductEntry(r[i])

\* C22: every non-empty note that get_all_flavor_notes returns is found by
\* find_coffee_by_flavors over the same pages: asked for that one note, the
\* matcher returns at least one product entry and not the sentinel.
C22_EveryIndexedNoteFindsAProduct ==
  /\ NotesDone
       => \A n \in Range(ret) :
            n # <<>> => FindsAProduct(FindCoffeeByFlavors(<<n>>))
  /\ (FindDone /\ Len(flavors) = 1 /\ flavors[1] # <<>>
        /\ flavors[1] \in Range(GetAllFlavorNotes))
       => FindsAProduct(ret)

(***************************************************************************)
(* C23                                                                     *)
(***************************************************************************)

\* q holds the terms typed in txt between the commas, in the order typed:
\* each term of q is a piece with its outer blanks removed and in lowercase,
\* the pieces taken keep their order, and every piece left out is blank.
InTypedOrder(q, txt) ==
  LET pieces == SplitOn(",", txt) IN
  \E f \in [1..Len(q) -> 1..Len(pieces)] :
    /\ \A i, j \in 1..Len(q) : i < j => f[i] < f[j]
    /\ \A i \in 1..Len(q) : q[i] = Lower(Strip(pieces[f[i]]))
    /\ \A k \in 1..Len(pieces) : (\A i \in 1..Len(q) : f[i] # k) => Strip(pieces[k]) = <<>>

\* In this step the dispatcher hands the update to process_flavors.
ProcessFlavorsTakes == Matched("process_flavors") /\ inbox' = Tail(inbox)

\* In this step a crawl requests pages.
CrawlRuns == requested' # requested

\* What find_coffee_by_flavors returns for a query that normalization leaves
\* empty: an entry for every crawled product with a title-link and a marker
\* paragraph, whatever its notes.
EveryProductMatchesNoTerm ==
  LET all == SelectSeq(CrawledItems, Extractable) IN
  EntriesFrom(1, <<>>, <<>>) = [i \in 1..Len(all) |-> EntryOf(all[i])]

ParsersDone == op = "parsers.parse_coffee_page" /\ pc = "done"

\* The request for the page yields no markup: it fails, its status is not
\* 200, or its body is the empty string.
NoMarkup(resp) == resp.raises \/ resp.status # 200 \/ resp.blank

\* C24: parse_coffee_page(url, limit) of parsers.py returns at most limit
\* entries, those of the containers with a title-link among the first limit
\* containers of the page, in page order, a container without a title-link
\* being skipped and not replaced by a later one; it returns the fetch-error
\* entry alone when the page is absent and the 'no products found' entry
\* alone when no entry was made, so that its result is never empty.
C24_AtMostLimitFromFirstContainers ==
  ParsersDone =>
    LET resp == PageAt(url)
        T == SelectSeq(FirstN(resp.items, limit), HasTitle)
    IN  /\ ret # <<>>
        /\ NoMarkup(resp) => ret = <<FETCH_ERROR>>
        /\ ~NoMarkup(resp) =>
             IF T = <<>> THEN ret = <<NO_PRODUCTS>>
             ELSE /\ Len(ret) = Len(T)
                  /\ Len(ret) <= limit
                  /\ \A j \in DOMAIN T : <<ret[j]>> = ParsersEntry(T[j])

\* With limit 1 on a page whose first container has no title-link and whose
\* second has one, the second is not taken in its place.
C24_Witness ==
  /\ ParsersDone
  /\ limit = 1
  /\ PageAt(url).items = <<ItemNoTitle, ItemTwoParas>>
  /\ ret = <<NO_PRODUCTS>>

=============================================================================
